---- MODULE Spec2Model ----
(***************************************************************************)
(* Model of newpost.py, the interactive script that scaffolds a blog post. *)
(* Text is modelled as a sequence of one-character strings, so that the    *)
(* string operations of the script (strip, lower, re.sub, split, join, %)  *)
(* are computed character by character as Python computes them.           *)
(***************************************************************************)
EXTENDS Integers, Sequences, FiniteSets, TLC

VARIABLES
    pc,          \* position in the script (the statement about to run)
    clock,       \* the local wall clock, <<year, month, day, hour, min, sec>>
    now,         \* line 7
    ymd,         \* line 8
    stdin,       \* the lines input() has returned so far, in order
    post_name,   \* line 10
    filename,    \* lines 12-13
    tags,        \* lines 15-21
    stdout,      \* what was written to standard output, in order
    dirs,        \* the directories that exist
    files,       \* the files that exist: path -> content
    exitStatus   \* <<>> while the process runs, <<n>> once it ended with status n

vars == <<pc, clock, now, ymd, stdin, post_name, filename, tags, stdout,
          dirs, files, exitStatus>>

----------------------------------------------------------------------------
(* Bounds of the model *)

\* titles are built from at most this many TitleTokens
MaxTitleTokens == 2
\* manual tag responses are built from at most this many ResponseTokens
MaxRespTokens == 2
\* seconds the clock may advance between the two localtime() calls
MaxAdvance == 1

----------------------------------------------------------------------------
(* Characters *)

UpperLetters == <<"A", "B", "C", "D", "E", "F", "G", "H", "I", "J", "K", "L", "M",
                  "N", "O", "P", "Q", "R", "S", "T", "U", "V", "W", "X", "Y", "Z">>
LowerLetters == <<"a", "b", "c", "d", "e", "f", "g", "h", "i", "j", "k", "l", "m",
                  "n", "o", "p", "q", "r", "s", "t", "u", "v", "w", "x", "y", "z">>
Digits == <<"0", "1", "2", "3", "4", "5", "6", "7", "8", "9">>

Range(s) == {s[i] : i \in DOMAIN s}

\* the characters str.strip() removes when called without argument
Whitespace == {" ", "\t", "\n", "\r", "\f"}

\* the characters the class [a-z0-9] accepts
SlugChars == Range(LowerLetters) \cup Range(Digits)

\* str.lower() on one character
LowerChar(c) ==
    IF \E i \in DOMAIN UpperLetters : UpperLetters[i] = c
    THEN LowerLetters[CHOOSE i \in DOMAIN UpperLetters : UpperLetters[i] = c]
    ELSE c

\* str.lower()
Lower(s) == [i \in DOMAIN s |-> LowerChar(s[i])]

----------------------------------------------------------------------------
(* String operations *)

\* str.lstrip(chars): drop the leading characters that are in chars
LStrip(s, chars) ==
    LET keep == {i \in DOMAIN s : s[i] \notin chars}
    IN  IF keep = {} THEN <<>>
        ELSE SubSeq(s, CHOOSE i \in keep : \A j \in keep : i <= j, Len(s))

\* str.rstrip(chars): drop the trailing characters that are in chars
RStrip(s, chars) ==
    LET keep == {i \in DOMAIN s : s[i] \notin chars}
    IN  IF keep = {} THEN <<>>
        ELSE SubSeq(s, 1, CHOOSE i \in keep : \A j \in keep : j <= i)

\* str.strip(chars)
StripChars(s, chars) == RStrip(LStrip(s, chars), chars)

\* str.strip()
Strip(s) == StripChars(s, Whitespace)

\* needle in hay, for strings
In(needle, hay) ==
    \E i \in 1..(Len(hay) - Len(needle) + 1) :
        SubSeq(hay, i, i + Len(needle) - 1) = needle

\* the pattern without its +: every character outside [a-z0-9] becomes a '-'
ReSub_EachChar(s) == [i \in DOMAIN s |-> IF s[i] \in SlugChars THEN s[i] ELSE "-"]

\* the end of the run of characters outside [a-z0-9] that starts at s[i]:
\* the index of the next character of the class, or Len(s) + 1
RunEnd(s, i) ==
    LET stops == {j \in i..Len(s) : s[j] \in SlugChars}
    IN  IF stops = {} THEN Len(s) + 1
        ELSE CHOOSE j \in stops : \A k \in stops : j <= k

\* re.sub('[^a-z0-9]+', '-', s) from index i on: scanning from the left, a
\* character of the class is copied, and the longest run of other
\* characters becomes one '-'
RECURSIVE ReSubFrom(_, _)
ReSubFrom(s, i) ==
    IF i > Len(s) THEN <<>>
    ELSE IF s[i] \in SlugChars THEN <<s[i]>> \o ReSubFrom(s, i + 1)
    ELSE <<"-">> \o ReSubFrom(s, RunEnd(s, i))

ReSub(s) == ReSubFrom(s, 1)

\* str.split(',') from index i on: the pieces between the commas, empty
\* pieces kept
RECURSIVE SplitFrom(_, _)
SplitFrom(s, i) ==
    LET commas == {j \in i..Len(s) : s[j] = ","}
    IN  IF commas = {} THEN <<SubSeq(s, i, Len(s))>>
        ELSE <<SubSeq(s, i, (CHOOSE j \in commas : \A k \in commas : j <= k) - 1)>>
             \o SplitFrom(s, (CHOOSE j \in commas : \A k \in commas : j <= k) + 1)

Split(s) == SplitFrom(s, 1)

\* ', '.join(list)
RECURSIVE Join(_)
Join(list) ==
    IF list = <<>> THEN <<>>
    ELSE IF Len(list) = 1 THEN list[1]
    ELSE list[1] \o <<",", " ">> \o Join(Tail(list))

\* %d for a natural number
RECURSIVE Dec(_)
Dec(n) == IF n < 10 THEN <<Digits[n + 1]>> ELSE Dec(n \div 10) \o <<Digits[(n % 10) + 1]>>

\* %02d for a natural number
Pad2(n) == IF n < 10 THEN <<"0">> \o Dec(n) ELSE Dec(n)

----------------------------------------------------------------------------
(* The clock and its formatting *)

IsLeap(y) == (y % 4 = 0 /\ y % 100 # 0) \/ y % 400 = 0

DaysInMonth(y, m) ==
    IF m = 2 THEN (IF IsLeap(y) THEN 29 ELSE 28)
    ELSE IF m \in {4, 6, 9, 11} THEN 30 ELSE 31

\* the local time one second after t
NextSecond(t) ==
    IF t[6] < 59 THEN [t EXCEPT ![6] = t[6] + 1]
    ELSE IF t[5] < 59 THEN [t EXCEPT ![5] = t[5] + 1, ![6] = 0]
    ELSE IF t[4] < 23 THEN [t EXCEPT ![4] = t[4] + 1, ![5] = 0, ![6] = 0]
    ELSE IF t[3] < DaysInMonth(t[1], t[2]) THEN <<t[1], t[2], t[3] + 1, 0, 0, 0>>
    ELSE IF t[2] < 12 THEN <<t[1], t[2] + 1, 1, 0, 0, 0>>
    ELSE <<t[1] + 1, 1, 1, 0, 0, 0>>

RECURSIVE Advance(_, _)
Advance(t, d) == IF d = 0 THEN t ELSE Advance(NextSecond(t), d - 1)

\* "%d-%02d-%02d %02d:%02d:%02d -0700" % localtime()[:6]
FormatNow(t) ==
    Dec(t[1]) \o <<"-">> \o Pad2(t[2]) \o <<"-">> \o Pad2(t[3]) \o <<" ">>
    \o Pad2(t[4]) \o <<":">> \o Pad2(t[5]) \o <<":">> \o Pad2(t[6])
    \o <<" ", "-", "0", "7", "0", "0">>

\* "%d-%02d-%02d" % localtime()[:3]
FormatYmd(t) == Dec(t[1]) \o <<"-">> \o Pad2(t[2]) \o <<"-">> \o Pad2(t[3])

----------------------------------------------------------------------------
(* The values the script derives *)

KNOWN_TAGS == << <<"p", "y", "t", "h", "o", "n">>,
                 <<"r", "u", "s", "t">>,
                 <<"d", "a", "t", "a">> >>

\* line 12 without .strip('-')
StripHyphens_Missing(s) == s

\* .strip('-') of line 12
StripHyphens(s) == StripChars(s, {"-"})

\* the rest of lines 12-13: ymd + '-' + slug, then "_posts/%s.md" % that
Filename(date, slug) ==
    <<"_", "p", "o", "s", "t", "s", "/">> \o (date \o <<"-">> \o slug)
    \o <<".", "m", "d">>

\* lines 15-18: the loop over KNOWN_TAGS from index k on, appending to acc
\* each known tag found in text
RECURSIVE MatchFrom(_, _, _)
MatchFrom(k, text, acc) ==
    IF k > Len(KNOWN_TAGS) THEN acc
    ELSE MatchFrom(k + 1, text,
                   IF In(KNOWN_TAGS[k], text) THEN Append(acc, KNOWN_TAGS[k]) ELSE acc)

\* the loop with the title compared as typed, without .lower()
MatchKnownTags_CaseSensitive(name) == MatchFrom(1, name, <<>>)

\* lines 15-18: known_tag in post_name.lower()
MatchKnownTags(name) == MatchFrom(1, Lower(name), <<>>)

\* the list of line 21 without .lower()
ManualTags_NoLower(response) ==
    LET pieces == Split(Strip(response))
    IN  [i \in DOMAIN pieces |-> Strip(pieces[i])]

NonEmpty(s) == s # <<>>

\* the list of line 21 with the empty tags filtered out
ManualTags_DropEmpty(response) ==
    LET pieces == Split(Lower(Strip(response)))
    IN  SelectSeq([i \in DOMAIN pieces |-> Strip(pieces[i])], NonEmpty)

\* line 21: [tag.strip() for tag in response.strip().lower().split(',')]
ManualTags(response) ==
    LET pieces == Split(Lower(Strip(response)))
    IN  [i \in DOMAIN pieces |-> Strip(pieces[i])]

\* the test of line 23 without .lower()
Accepts_NoLower(answer) == Strip(answer) = <<"y">>

\* line 23: 'y' == answer.strip().lower()
Accepts(answer) == Lower(Strip(answer)) = <<"y">>

\* the character U+0060 of the template
GraveAccent == "U+0060"

\* lines 29-38: the text written to the file
Template(name, date, taglist) ==
    <<"-", "-", "-", "\n", "l", "a", "y", "o", "u", "t", ":", " ", "p", "o", "s", "t", "\n",
      "t", "i", "t", "l", "e", ":", " ", " ", "\"">> \o name
    \o <<"\"", "\n", "d", "a", "t", "e", ":", " ", " ", " ">> \o date
    \o <<"\n", "c", "a", "t", "e", "g", "o", "r", "y", ":", " ", "c", "o", "d", "e", "\n",
         "t", "a", "g", "s", ":", " ", "[">> \o Join(taglist)
    \o <<"]", "\n", "-", "-", "-", "\n", "\n", GraveAccent, "T", "O", "D", "O",
         GraveAccent, "\n">>

----------------------------------------------------------------------------
(* The process and the file system *)

\* the status the process ends with after exit(code)
ExitStatusOf(code) == code % 256

\* the status of a process that ends with an uncaught exception
ExitUncaught == 1

\* the status of a process that runs off the end of the script
ExitNormal == 0

\* the directory part of a path: what precedes its last slash
DirName(path) ==
    LET slashes == {i \in DOMAIN path : path[i] = "/"}
    IN  IF slashes = {} THEN <<>>
        ELSE SubSeq(path, 1, (CHOOSE i \in slashes : \A j \in slashes : j <= i) - 1)

\* open(path, 'w') succeeds when the directory of path exists
CanOpenForWrite(path, ds) == DirName(path) = <<>> \/ DirName(path) \in ds

\* open(path, 'a'): the content is added to what the file holds
WriteFile_Append(fs, path, content) ==
    [p \in DOMAIN fs \cup {path} |->
        IF p = path THEN (IF p \in DOMAIN fs THEN fs[p] ELSE <<>>) \o content
        ELSE fs[p]]

\* open(path, 'w'), write(content), close: the file is created or truncated
WriteFile(fs, path, content) ==
    [p \in DOMAIN fs \cup {path} |-> IF p = path THEN content ELSE fs[p]]

\* what stdout receives: <<text before, interpolated value, text after>>
TitlePrompt == <<"New post name: ", <<>>, "">>
TagsPrompt == <<"No tags found. Enter tags separated by a comma: ", <<>>, "">>
ConfirmPrompt(path) == <<"Create post \"", path, "\"? [y/N] ">>
CancelMessage == <<"Cancelling\n", <<>>, "">>
CreatedMessage == <<"Created file\n", <<>>, "">>

----------------------------------------------------------------------------
(* The environment: the clock, the file system and the lines typed *)

StartTimes == { <<2024, 3, 5, 23, 59, 59>>, <<2024, 12, 31, 23, 59, 59>> }

PostsDir == <<"_", "p", "o", "s", "t", "s">>
IndexPath == <<"i", "n", "d", "e", "x", ".", "m", "d">>
OldPostPath ==
    <<"_", "p", "o", "s", "t", "s", "/", "2", "0", "2", "4", "-", "0", "3", "-", "0", "5",
      "-", "h", "e", "l", "l", "o", "-", "w", "o", "r", "l", "d", ".", "m", "d">>
OldContent == <<"o", "l", "d", "\n">>

\* the working directory before the run: without _posts/, or with _posts/
\* holding an earlier post
FileSystems ==
    { [dirs |-> {}, files |-> [p \in {IndexPath} |-> OldContent]],
      [dirs |-> {PostsDir}, files |-> [p \in {IndexPath, OldPostPath} |-> OldContent]] }

RECURSIVE Flatten(_)
Flatten(ss) == IF ss = <<>> THEN <<>> ELSE Head(ss) \o Flatten(Tail(ss))

\* all concatenations of at most n strings of tokens
Texts(tokens, n) == {Flatten(ts) : ts \in UNION {[1..k -> tokens] : k \in 0..n}}

TitleTokens == { <<"R", "u", "s", "t">>, <<" ">>, <<"-">>, <<"7">> }

ExampleTitles ==
    { <<"H", "e", "l", "l", "o", ",", " ", "W", "o", "r", "l", "d", "!">>,
      <<"M", "y", " ", "R", "u", "s", "t", " ", "P", "r", "o", "j", "e", "c", "t">>,
      <<"S", "o", "m", "e", "t", "h", "i", "n", "g", " ", "E", "l", "s", "e">>,
      <<"P", "y", "t", "h", "o", "n", " ", "R", "u", "s", "t", " ", "d", "a", "t", "a">>,
      <<"d", "a", "t", "a", " ", "p", "y", "t", "h", "o", "n">> }

TitleLines == Texts(TitleTokens, MaxTitleTokens) \cup ExampleTitles

ResponseTokens == { <<"B">>, <<",">>, <<" ">> }

ExampleResponses ==
    { <<" ", " ", "F", "o", "o", " ", ",", " ", "B", "A", "R", ",", "b", "a", "z", " ", ",">>,
      <<"b", ",", "B">> }

ResponseLines == Texts(ResponseTokens, MaxRespTokens) \cup ExampleResponses

AnswerLines ==
    { <<"y">>, <<"Y">>, <<" ", "y", "\t">>, <<>>, <<"N">>, <<"n">>, <<"y", "e", "s">> }

----------------------------------------------------------------------------
(* The script, statement by statement *)

Init ==
    /\ pc = "now"
    /\ clock \in StartTimes
    /\ now = <<>>
    /\ ymd = <<>>
    /\ stdin = <<>>
    /\ post_name = <<>>
    /\ filename = <<>>
    /\ tags = <<>>
    /\ stdout = <<>>
    /\ \E fs \in FileSystems : dirs = fs.dirs /\ files = fs.files
    /\ exitStatus = <<>>

\* line 7
SampleNow ==
    /\ pc = "now"
    /\ now' = FormatNow(clock)
    /\ pc' = "ymd"
    /\ UNCHANGED <<clock, ymd, stdin, post_name, filename, tags, stdout, dirs, files,
                   exitStatus>>

\* line 8: a second call of localtime(), some time after the first
SampleYmd ==
    /\ pc = "ymd"
    /\ \E d \in 0..MaxAdvance : clock' = Advance(clock, d)
    /\ ymd' = FormatYmd(clock')
    /\ pc' = "post_name"
    /\ UNCHANGED <<now, stdin, post_name, filename, tags, stdout, dirs, files, exitStatus>>

\* line 10
CollectTitle ==
    /\ pc = "post_name"
    /\ \E line \in TitleLines :
          /\ stdin' = Append(stdin, line)
          /\ post_name' = Strip(line)
    /\ stdout' = Append(stdout, TitlePrompt)
    /\ pc' = "filename"
    /\ UNCHANGED <<clock, now, ymd, filename, tags, dirs, files, exitStatus>>

\* lines 12-13: post_name.lower(), re.sub('[^a-z0-9]+', '-', ...), .strip('-')
ComputeFilename ==
    /\ pc = "filename"
    /\ \E lowered \in {Lower(post_name)} :
       \E hyphenated \in {ReSub(lowered)} :
       \E slug \in {StripHyphens(hyphenated)} :
          filename' = Filename(ymd, slug)
    /\ pc' = "tags"
    /\ UNCHANGED <<clock, now, ymd, stdin, post_name, tags, stdout, dirs, files,
                   exitStatus>>

\* lines 15-20: the loop over KNOWN_TAGS and the test of len(tags)
ResolveTags ==
    /\ pc = "tags"
    /\ tags' = MatchKnownTags(post_name)
    /\ pc' = IF Len(tags') = 0 THEN "manual" ELSE "confirm"
    /\ UNCHANGED <<clock, now, ymd, stdin, post_name, filename, stdout, dirs, files,
                   exitStatus>>

\* line 21
PromptTags ==
    /\ pc = "manual"
    /\ \E line \in ResponseLines :
          /\ stdin' = Append(stdin, line)
          /\ tags' = ManualTags(line)
    /\ stdout' = Append(stdout, TagsPrompt)
    /\ pc' = "confirm"
    /\ UNCHANGED <<clock, now, ymd, post_name, filename, dirs, files, exitStatus>>

\* a confirmation that asks again until the line is a yes or a no
Confirm_Retry ==
    /\ pc = "confirm"
    /\ \E line \in AnswerLines :
          /\ stdin' = Append(stdin, line)
          /\ IF Accepts(line)
             THEN /\ stdout' = Append(stdout, ConfirmPrompt(filename))
                  /\ pc' = "write"
                  /\ exitStatus' = exitStatus
             ELSE IF Lower(Strip(line)) = <<"n">>
             THEN /\ stdout' = stdout \o <<ConfirmPrompt(filename), CancelMessage>>
                  /\ pc' = "exited"
                  /\ exitStatus' = <<ExitStatusOf(-1)>>
             ELSE /\ stdout' = Append(stdout, ConfirmPrompt(filename))
                  /\ pc' = IF Len(stdin) < 4 THEN "confirm" ELSE "exited"
                  /\ exitStatus' = IF Len(stdin) < 4 THEN exitStatus
                                   ELSE <<ExitStatusOf(-1)>>
    /\ UNCHANGED <<clock, now, ymd, post_name, filename, tags, dirs, files>>

\* lines 23-25
Confirm ==
    /\ pc = "confirm"
    /\ \E line \in AnswerLines :
          /\ stdin' = Append(stdin, line)
          /\ IF Accepts(line)
             THEN /\ stdout' = Append(stdout, ConfirmPrompt(filename))
                  /\ pc' = "write"
                  /\ exitStatus' = exitStatus
             ELSE /\ stdout' = stdout \o <<ConfirmPrompt(filename), CancelMessage>>
                  /\ pc' = "exited"
                  /\ exitStatus' = <<ExitStatusOf(-1)>>
    /\ UNCHANGED <<clock, now, ymd, post_name, filename, tags, dirs, files>>

\* a write step that swallows the error of open() and goes on
Write_IgnoreError ==
    /\ pc = "write"
    /\ files' = IF CanOpenForWrite(filename, dirs)
                THEN WriteFile(files, filename, Template(post_name, now, tags))
                ELSE files
    /\ pc' = "created"
    /\ UNCHANGED <<clock, now, ymd, stdin, post_name, filename, tags, stdout, dirs,
                   exitStatus>>

\* lines 28-38: open() raises when _posts/ is missing, and nothing catches it
Write ==
    /\ pc = "write"
    /\ IF CanOpenForWrite(filename, dirs)
       THEN /\ files' = WriteFile(files, filename,
                                  Template(post_name, now, tags))
            /\ pc' = "created"
            /\ exitStatus' = exitStatus
       ELSE /\ files' = files
            /\ pc' = "exited"
            /\ exitStatus' = <<ExitUncaught>>
    /\ UNCHANGED <<clock, now, ymd, stdin, post_name, filename, tags, stdout, dirs>>

\* line 40, and the end of the script
PrintCreated ==
    /\ pc = "created"
    /\ stdout' = Append(stdout, CreatedMessage)
    /\ pc' = "exited"
    /\ exitStatus' = <<ExitNormal>>
    /\ UNCHANGED <<clock, now, ymd, stdin, post_name, filename, tags, dirs, files>>

Next ==
    \/ SampleNow
    \/ SampleYmd
    \/ CollectTitle
    \/ ComputeFilename
    \/ ResolveTags
    \/ PromptTags
    \/ Confirm
    \/ Write
    \/ PrintCreated

Spec == Init /\ [][Next]_vars

\* the interpreter runs the next statement whenever there is one
FairSpec == Spec /\ WF_vars(Next)

----------------------------------------------------------------------------
(* Vocabulary of the properties *)

Last(s) == s[Len(s)]

\* the statements after the tag list is final
AfterTags == {"confirm", "write", "created", "exited"}

\* the line typed at the title prompt
TitleLine == stdin[1]

Printed(message) == \E i \in DOMAIN stdout : stdout[i] = message

\* t occurs in s at some offset
Occurs(t, s) ==
    \E off \in 0..Len(s) :
        \A j \in 1..Len(t) : off + j <= Len(s) /\ s[off + j] = t[j]

\* the line is a single y or Y between whitespace
IsYes(line) ==
    \E i \in DOMAIN line :
        /\ line[i] \in {"y", "Y"}
        /\ \A j \in DOMAIN line : j # i => line[j] \in Whitespace

IsSlugChar(c) == c \in SlugChars

\* the positions of the commas of a line, and its i-th comma
Commas(line) == {i \in DOMAIN line : line[i] = ","}
NthComma(line, n) ==
    CHOOSE c \in Commas(line) : Cardinality({d \in Commas(line) : d <= c}) = n

\* the i-th piece of a line cut at its commas
Piece(line, i) ==
    LET lo == IF i = 1 THEN 0 ELSE NthComma(line, i - 1)
        hi == IF i = Cardinality(Commas(line)) + 1 THEN Len(line) + 1
              ELSE NthComma(line, i)
    IN  SubSeq(line, lo + 1, hi - 1)

NoUpper(s) == \A i \in DOMAIN s : s[i] \notin Range(UpperLetters)
Trimmed(s) == s = <<>> \/ (s[1] \notin Whitespace /\ s[Len(s)] \notin Whitespace)
Distinct(list) == \A i, j \in DOMAIN list : i # j => list[i] # list[j]

PostsPrefix == <<"_", "p", "o", "s", "t", "s", "/">>
MdSuffix == <<".", "m", "d">>

----------------------------------------------------------------------------
(* C1 *)

\* C1: the step at the confirmation prompt goes on to the write step exactly
\* when the line read is a y or Y between whitespace; on any other line it
\* prints "Cancelling" and ends the process with a non-zero status, leaving
\* the files alone; and the write step is entered from nowhere else.
C1_ConfirmOnlyOnY ==
    [][ /\ pc = "confirm" =>
             IF IsYes(Last(stdin'))
             THEN /\ pc' = "write"
                  /\ exitStatus' = <<>>
                  /\ ~Printed(CancelMessage)'
             ELSE /\ pc' = "exited"
                  /\ Last(stdout') = CancelMessage
                  /\ exitStatus' # <<>> /\ exitStatus'[1] # 0
                  /\ files' = files /\ dirs' = dirs
        /\ pc' = "write" => pc = "confirm"
        /\ pc = "confirm" /\ Last(stdin') \in {<<>>, <<"N">>, <<"n">>, <<"y", "e", "s">>}
             => pc' = "exited" /\ Last(stdout') = CancelMessage
      ]_vars

\* the answer "yes" was typed and the run was cancelled
C1_Witness ==
    /\ pc = "exited"
    /\ Last(stdin) = <<"y", "e", "s">>
    /\ Last(stdout) = CancelMessage
    /\ exitStatus = <<255>>

----------------------------------------------------------------------------
(* C2 *)

\* C2: once the filename is computed, its date (the ten characters after
\* "_posts/") equals the date part of the front-matter date string.
C2_FilenameDateIsFrontMatterDate ==
    pc \in {"tags", "manual"} \cup AfterTags =>
        SubSeq(filename, 8, 17) = SubSeq(now, 1, 10)

----------------------------------------------------------------------------
(* C3 *)

\* C3: the slug, the part of the path between "_posts/<date>-" and ".md",
\* holds only a-z, 0-9 and '-', neither starts nor ends with '-', holds no
\* two '-' in a row, and keeps the letters and digits of the lowercased
\* title in order; "Hello, World!" on 2024-03-05 gives
\* _posts/2024-03-05-hello-world.md.
C3_SlugShape ==
    pc \in {"tags", "manual"} \cup AfterTags =>
        LET slug == SubSeq(filename, Len(PostsPrefix) + Len(ymd) + 2,
                           Len(filename) - Len(MdSuffix))
        IN  /\ filename = PostsPrefix \o ymd \o <<"-">> \o slug \o MdSuffix
            /\ Range(slug) \subseteq SlugChars \cup {"-"}
            /\ slug # <<>> => slug[1] # "-" /\ slug[Len(slug)] # "-"
            /\ \A i \in 1..(Len(slug) - 1) : ~(slug[i] = "-" /\ slug[i + 1] = "-")
            /\ SelectSeq(slug, IsSlugChar) = SelectSeq(Lower(TitleLine), IsSlugChar)
            /\ (/\ TitleLine = <<"H", "e", "l", "l", "o", ",", " ", "W", "o", "r", "l", "d", "!">>
                /\ ymd = <<"2", "0", "2", "4", "-", "0", "3", "-", "0", "5">>)
               => filename = OldPostPath

\* the title "Hello, World!" was slugified
C3_Witness ==
    /\ pc = "tags"
    /\ TitleLine = <<"H", "e", "l", "l", "o", ",", " ", "W", "o", "r", "l", "d", "!">>
    /\ filename = OldPostPath

----------------------------------------------------------------------------
(* C4 *)

\* C4: after the loop over the known tags, the manual prompt is due or was
\* issued exactly when no known tag occurs in the lowercased title, and
\* otherwise the tags are the known tags that occur in it, in the order of
\* the list, each once; "My Rust Project" gives [rust] and no prompt.
C4_AutoTags ==
    pc \in {"manual"} \cup AfterTags =>
        LET title == Lower(TitleLine)
            Hit(t) == Occurs(t, title)
            hits == {k \in DOMAIN KNOWN_TAGS : Hit(KNOWN_TAGS[k])}
        IN  /\ (pc = "manual" \/ Printed(TagsPrompt)) <=> hits = {}
            /\ pc = "manual" => tags = <<>>
            /\ hits # {} =>
                 /\ Len(tags) = Cardinality(hits)
                 /\ \A k \in hits :
                      tags[Cardinality({h \in hits : h <= k})] = KNOWN_TAGS[k]
            /\ TitleLine = <<"M", "y", " ", "R", "u", "s", "t", " ", "P", "r", "o", "j",
                             "e", "c", "t">>
               => tags = << <<"r", "u", "s", "t">> >> /\ ~Printed(TagsPrompt)

\* a title naming data before python resolved to [python, data], unprompted
C4_Witness ==
    /\ pc = "confirm"
    /\ TitleLine = <<"d", "a", "t", "a", " ", "p", "y", "t", "h", "o", "n">>
    /\ tags = << <<"p", "y", "t", "h", "o", "n">>, <<"d", "a", "t", "a">> >>
    /\ ~Printed(TagsPrompt)

----------------------------------------------------------------------------
(* C5 *)

\* C5 as stated: from tag resolution on, the tags are distinct lowercase
\* strings, auto-derived or typed.
C5_TagsDistinctLowercase ==
    pc \in AfterTags =>
        /\ Distinct(tags)
        /\ \A i \in DOMAIN tags : NoUpper(tags[i])

\* C5 amended: from tag resolution on, every tag is lowercase and without
\* surrounding whitespace; auto-derived tags are distinct, while tags typed
\* at the manual prompt are kept as typed and may repeat.
C5_TagsLowercase ==
    pc \in AfterTags =>
        /\ \A i \in DOMAIN tags : NoUpper(tags[i]) /\ Trimmed(tags[i])
        /\ ~Printed(TagsPrompt) => Distinct(tags)

\* the response "b,B" gave the tag b twice
C5_Witness ==
    /\ pc = "confirm"
    /\ Printed(TagsPrompt)
    /\ stdin[2] = <<"b", ",", "B">>
    /\ tags = << <<"b">>, <<"b">> >>

----------------------------------------------------------------------------
(* C6 *)

\* C6: after the manual prompt, the tags are the pieces of the response cut
\* at every comma, each stripped and lowercased, in order, duplicates and
\* empty pieces kept: k commas give k + 1 tags; "  Foo , BAR,baz ," gives
\* [foo, bar, baz, ""] and the empty response gives [""].
C6_ManualTags ==
    pc \in AfterTags /\ Printed(TagsPrompt) =>
        LET response == stdin[2]
        IN  /\ Len(tags) = Cardinality(Commas(response)) + 1
            /\ \A i \in DOMAIN tags : tags[i] = Lower(Strip(Piece(response, i)))
            /\ response = <<>> => tags = << <<>> >>
            /\ response = <<" ", " ", "F", "o", "o", " ", ",", " ", "B", "A", "R", ",",
                            "b", "a", "z", " ", ",">>
               => tags = << <<"f", "o", "o">>, <<"b", "a", "r">>, <<"b", "a", "z">>, <<>> >>

\* the response with a trailing comma gave four tags, the last one empty
C6_Witness ==
    /\ pc = "confirm"
    /\ Printed(TagsPrompt)
    /\ stdin[2] = <<" ", " ", "F", "o", "o", " ", ",", " ", "B", "A", "R", ",",
                    "b", "a", "z", " ", ",">>
    /\ Len(tags) = 4
    /\ tags[4] = <<>>

----------------------------------------------------------------------------
(* C7 *)

\* C7 as stated: the process ends with a non-zero status exactly when the
\* user cancelled, and with status 0 on every other path.
C7_ExitZeroUnlessCancelled ==
    pc = "exited" =>
        /\ Printed(CancelMessage) <=> exitStatus[1] # 0
        /\ ~Printed(CancelMessage) => exitStatus = <<0>>

\* C7 amended: the process ends with status 0 exactly when the file was
\* written and "Created file" printed, with status 255 exactly when the user
\* cancelled, and with status 1 when the write step failed with the uncaught
\* error of open(), as it does when _posts/ is missing; no other status
\* occurs, and none before the end.
C7_ExitStatus ==
    /\ pc # "exited" => exitStatus = <<>>
    /\ pc = "exited" =>
        /\ exitStatus \in {<<0>>, <<1>>, <<255>>}
        /\ exitStatus = <<255>> <=> Printed(CancelMessage)
        /\ exitStatus = <<0>> <=> Printed(CreatedMessage) /\ filename \in DOMAIN files
        /\ exitStatus = <<1>> <=>
             /\ IsYes(Last(stdin))
             /\ PostsDir \notin dirs
             /\ filename \notin DOMAIN files

\* a confirmed run ended with status 1 because _posts/ is missing
C7_Witness ==
    /\ pc = "exited"
    /\ IsYes(Last(stdin))
    /\ PostsDir \notin dirs
    /\ exitStatus = <<1>>

----------------------------------------------------------------------------
(* C8 *)

\* C8 as stated: a title without a letter or digit gives the path
\* _posts/<date>.md, with nothing between the date and ".md".
C8_EmptyTitleDateOnly ==
    pc \in {"tags", "manual"} \cup AfterTags
    /\ SelectSeq(Lower(TitleLine), IsSlugChar) = <<>>
        => filename = PostsPrefix \o ymd \o MdSuffix

\* C8 amended: a title without a letter or digit is accepted without error
\* (the run goes on to tag resolution) and gives the path _posts/<date>-.md:
\* the date, the separating hyphen and an empty slug.
C8_EmptyTitleDateHyphen ==
    pc \in {"tags", "manual", "confirm"}
    /\ SelectSeq(Lower(TitleLine), IsSlugChar) = <<>>
        => /\ filename = PostsPrefix \o ymd \o <<"-">> \o MdSuffix
           /\ exitStatus = <<>>

\* the title " -" gave the path of the date followed by a hyphen
C8_Witness ==
    /\ pc = "confirm"
    /\ TitleLine = <<" ", "-">>
    /\ ymd = <<"2", "0", "2", "4", "-", "0", "3", "-", "0", "6">>
    /\ filename = <<"_", "p", "o", "s", "t", "s", "/", "2", "0", "2", "4", "-", "0", "3",
                    "-", "0", "6", "-", ".", "m", "d">>

----------------------------------------------------------------------------
(* C9 *)

\* C9: no step changes a directory; the write step of a confirmed run, when
\* _posts/ exists, creates or replaces exactly the file at the path shown in
\* the confirmation prompt, a path _posts/<date>-<slug>.md, with the
\* template as its whole content, and leaves every other file as it was;
\* every other step, the cancellation and the failed write included, leaves
\* every file as it was.
C9_FilesystemEffect ==
    [][ /\ dirs' = dirs
        /\ IF pc = "write" /\ PostsDir \in dirs
           THEN /\ DOMAIN files' = DOMAIN files \cup {filename}
                /\ \A p \in DOMAIN files : p # filename => files'[p] = files[p]
                /\ files'[filename] = Template(post_name, now, tags)
                /\ Last(stdout) = ConfirmPrompt(filename)
                /\ SubSeq(filename, 1, Len(PostsPrefix)) = PostsPrefix
                /\ SubSeq(filename, Len(filename) - 2, Len(filename)) = MdSuffix
                /\ pc' = "created"
           ELSE files' = files
      ]_vars

\* an earlier post at the same path was replaced by the template
C9_Witness ==
    /\ pc = "created"
    /\ filename = OldPostPath
    /\ files[OldPostPath] = Template(post_name, now, tags)
    /\ files[OldPostPath] # OldContent
    /\ files[IndexPath] = OldContent

----------------------------------------------------------------------------
(* C10 *)

\* the statements each statement can be followed by
Successors(at) ==
    CASE at = "now" -> {"ymd"}
      [] at = "ymd" -> {"post_name"}
      [] at = "post_name" -> {"filename"}
      [] at = "filename" -> {"tags"}
      [] at = "tags" -> {"manual", "confirm"}
      [] at = "manual" -> {"confirm"}
      [] at = "confirm" -> {"write", "exited"}
      [] at = "write" -> {"created", "exited"}
      [] at = "created" -> {"exited"}
      [] at = "exited" -> {}

Index(message) == CHOOSE i \in DOMAIN stdout : stdout[i] = message

\* C10: every step moves from a statement to one of its successors in the
\* order title, filename, tags, confirmation, then write or cancellation;
\* the title prompt is the first output, the manual-tag prompt precedes the
\* confirmation prompt, the files change only in the write step, after the
\* confirmation answer was read, "Created file" is printed only once the
\* file is written, and every run ends.
C10_LinearOrder ==
    /\ [][ /\ pc' \in Successors(pc)
           /\ files' # files => pc = "write" /\ Last(stdout) = ConfirmPrompt(filename)
           /\ Printed(CreatedMessage)' =>
                /\ pc \in {"created", "exited"}
                /\ files[filename] = Template(post_name, now, tags)
           /\ stdout' # <<>> => stdout'[1] = TitlePrompt
           /\ (Printed(TagsPrompt) /\ Printed(ConfirmPrompt(filename)) =>
                 Index(TagsPrompt) < Index(ConfirmPrompt(filename)))'
         ]_vars
    /\ <>(pc = "exited")

\* a run went through all three prompts and the write
C10_Witness ==
    /\ pc = "exited"
    /\ stdout = <<TitlePrompt, TagsPrompt, ConfirmPrompt(filename), CreatedMessage>>
    /\ Len(stdin) = 3
    /\ filename \in DOMAIN files

====
